---------------------------- MODULE Spec2Model ----------------------------
(***************************************************************************)
(* The price-elasticity (PED) tab of the two dashboards, toolkit5.py and   *)
(* toolkit7.py.  Each dashboard is a script that is executed from top to   *)
(* bottom once per user interaction (upload, slider move, unit-cost        *)
(* change, plain re-run); what the last run computed and rendered is       *)
(* recorded in `out`.                                                      *)
(*                                                                         *)
(* Numbers.  The scripts compute in IEEE doubles.  The model computes in   *)
(* exact rationals extended with nan, -inf and +inf (a value is a record   *)
(* [k, n, d]).  np.log and np.exp are modelled by the base-2 logarithm     *)
(* interpolated linearly between consecutive powers of two, and by its     *)
(* exact inverse: both are strictly increasing, map rationals to           *)
(* rationals, and Log(2^i) = i.  The fitted slope of a log-log regression  *)
(* does not depend on the base of the logarithm, and exp(a + b*log(p)) is  *)
(* the same number in every base.  Rounding error of doubles is not        *)
(* modelled.                                                               *)
(***************************************************************************)
EXTENDS Integers, Sequences, FiniteSets, TLC

(***************************************************************************)
(* Extended rational arithmetic                                            *)
(***************************************************************************)
RECURSIVE Gcd(_, _)
Gcd(x, y) == IF y = 0 THEN x ELSE Gcd(y, x % y)

AbsInt(x) == IF x < 0 THEN -x ELSE x

NaN  == [k |-> "nan",  n |-> 0, d |-> 1]
PInf == [k |-> "inf",  n |-> 1, d |-> 1]
NInf == [k |-> "inf",  n |-> -1, d |-> 1]

\* The rational x/y (y # 0) in lowest terms with a positive denominator.
Rat(x, y) ==
    LET g == Gcd(AbsInt(x), AbsInt(y))
        s == IF y < 0 THEN -1 ELSE 1
    IN  [k |-> "num", n |-> (s * x) \div g, d |-> (s * y) \div g]

Num(x) == Rat(x, 1)

IsNum(v) == v.k = "num"
IsNaN(v) == v.k = "nan"
IsInf(v) == v.k = "inf"
\* np.isfinite
IsFinite(v) == IsNum(v)

\* Sign of an extended real that is not nan: -1, 0 or 1.
Sgn(v) == IF v.n > 0 THEN 1 ELSE IF v.n < 0 THEN -1 ELSE 0

Neg(v) == IF IsNaN(v) THEN NaN ELSE [v EXCEPT !.n = -v.n]

\* Python abs(): abs(nan) is nan, abs(+-inf) is +inf.
Abs(v) == IF IsNaN(v) THEN NaN ELSE [v EXCEPT !.n = AbsInt(v.n)]

Add(v, w) ==
    IF IsNaN(v) \/ IsNaN(w) THEN NaN
    ELSE IF IsInf(v) /\ IsInf(w) THEN (IF v.n = w.n THEN v ELSE NaN)
    ELSE IF IsInf(v) THEN v
    ELSE IF IsInf(w) THEN w
    ELSE LET g == Gcd(v.d, w.d)
         IN  Rat(v.n * (w.d \div g) + w.n * (v.d \div g),
                 (v.d \div g) * w.d)

Sub(v, w) == Add(v, Neg(w))

Mul(v, w) ==
    IF IsNaN(v) \/ IsNaN(w) THEN NaN
    ELSE IF IsInf(v) \/ IsInf(w)
         THEN (IF Sgn(v) * Sgn(w) = 0 THEN NaN
               ELSE IF Sgn(v) * Sgn(w) > 0 THEN PInf ELSE NInf)
    ELSE LET g == Gcd(AbsInt(v.n), w.d)
             h == Gcd(AbsInt(w.n), v.d)
         IN  Rat((v.n \div g) * (w.n \div h), (v.d \div h) * (w.d \div g))

\* Float division of numbers; the scripts divide only by non-zero numbers.
Div(v, w) ==
    IF IsNaN(v) \/ IsNaN(w) THEN NaN
    ELSE IF IsInf(v) /\ IsInf(w) THEN NaN
    ELSE IF IsInf(w) THEN Num(0)
    ELSE IF IsInf(v) THEN (IF Sgn(v) * Sgn(w) >= 0 THEN PInf ELSE NInf)
    ELSE IF w.n = 0 THEN (IF v.n = 0 THEN NaN ELSE IF v.n > 0 THEN PInf ELSE NInf)
    ELSE Mul(v, Rat(w.d, w.n))

\* Python comparisons: every comparison with nan is False.
Lt(v, w) ==
    IF IsNaN(v) \/ IsNaN(w) THEN FALSE
    ELSE IF IsInf(v) THEN (v.n < 0 /\ ~(IsInf(w) /\ w.n < 0))
    ELSE IF IsInf(w) THEN w.n > 0
    ELSE LET g == Gcd(v.d, w.d)
         IN  v.n * (w.d \div g) < w.n * (v.d \div g)

Gt(v, w) == Lt(w, v)
Ge(v, w) == ~IsNaN(v) /\ ~IsNaN(w) /\ ~Lt(v, w)
Le(v, w) == Ge(w, v)

\* floor of a rational number, as an integer.
Floor(v) == v.n \div v.d

RECURSIVE Pow2(_)
Pow2(i) == IF i = 0 THEN 1 ELSE 2 * Pow2(i - 1)

\* 2^i as a rational, for any integer i.
Two(i) == IF i >= 0 THEN Rat(Pow2(i), 1) ELSE Rat(1, Pow2(-i))

\* The integer i with 2^i <= v < 2^(i+1), for a rational v > 0.
RECURSIVE ExpoFrom(_, _)
ExpoFrom(v, i) ==
    IF Lt(v, Two(i)) THEN ExpoFrom(v, i - 1)
    ELSE IF Ge(v, Two(i + 1)) THEN ExpoFrom(v, i + 1)
    ELSE i

\* i + (v / 2^i - 1): the logarithm of v between 2^i and 2^(i+1).
Interpolate(v, i) == Add(Num(i), Sub(Div(v, Two(i)), Num(1)))

\* np.log: -inf at 0, nan below 0 (a RuntimeWarning, no exception).
Log(v) ==
    IF IsNaN(v) THEN NaN
    ELSE IF IsInf(v) THEN (IF v.n > 0 THEN PInf ELSE NaN)
    ELSE IF v.n = 0 THEN NInf
    ELSE IF v.n < 0 THEN NaN
    ELSE Interpolate(v, ExpoFrom(v, 0))

\* np.exp: 0 at -inf, +inf at +inf.
Exp(v) ==
    IF IsNaN(v) THEN NaN
    ELSE IF IsInf(v) THEN (IF v.n > 0 THEN PInf ELSE Num(0))
    ELSE Mul(Two(Floor(v)), Add(Num(1), Sub(v, Num(Floor(v)))))

\* The builtin round(x, 2) of a number x >= 0 (ties to even).
Round2(v) ==
    LET h  == Mul(v, Num(100))
        f  == Floor(h)
        r  == Sub(h, Num(f))
        up == Gt(r, Rat(1, 2)) \/ (r = Rat(1, 2) /\ f % 2 = 1)
    IN  Rat(IF up THEN f + 1 ELSE f, 100)

(***************************************************************************)
(* Datasets.  A dataset (the DataFrame df) is a sequence of rows           *)
(* [price, qty]; the values of an uploaded CSV are whatever the file       *)
(* holds, zero and negative numbers included.                              *)
(***************************************************************************)
Row(p, q) == [price |-> p, qty |-> q]

Column(df, c) == [i \in 1..Len(df) |-> df[i][c]]

RECURSIVE SumSeq(_)
SumSeq(s) == IF s = <<>> THEN Num(0) ELSE Add(Head(s), SumSeq(Tail(s)))

\* Series.mean(): nan for an empty series.
Mean(s) == IF s = <<>> THEN NaN ELSE Div(SumSeq(s), Num(Len(s)))

\* Series.min() of a non-empty series of numbers.
MinOf(s) == CHOOSE v \in {s[i] : i \in 1..Len(s)} :
                \A j \in 1..Len(s) : Le(v, s[j])

LogAll(s) == [i \in 1..Len(s) |-> Log(s[i])]

AllFinite(s) == \A i \in 1..Len(s) : IsFinite(s[i])

(***************************************************************************)
(* The fit.  A result is [raised, a, b]: the intercept a and the slope b   *)
(* of ln(qty) = a + b*ln(price), or an exception.                          *)
(***************************************************************************)
Fitted(a, b) == [raised |-> FALSE, a |-> a, b |-> b]
FitRaised    == [raised |-> TRUE,  a |-> NaN, b |-> NaN]

\* Sum of (u[i] - mean(u)) * (w[i] - mean(w)).
Centred(u, w) ==
    LET mu == Mean(u)
        mw == Mean(w)
    IN  SumSeq([i \in 1..Len(u) |-> Mul(Sub(u[i], mu), Sub(w[i], mw))])

\* Ordinary least squares of ys on xs; the xs are not all equal.
Line(xs, ys, b) == Fitted(Sub(Mean(ys), Mul(b, Mean(xs))), b)

\* The regression run the wrong way round: slope Sxy / Syy.
LeastSquaresOnY(xs, ys) ==
    Line(xs, ys, Div(Centred(xs, ys), Centred(ys, ys)))

LeastSquares(xs, ys) == Line(xs, ys, Div(Centred(xs, ys), Centred(xs, xs)))

\* LinearRegression().fit(X, y): input validation raises ValueError on an
\* empty, nan or infinite input; X and y are centred and solved by lstsq,
\* whose minimum-norm solution is slope 0 when the centred X is all zero.
LinearRegressionFit(xs, ys) ==
    IF Len(xs) = 0 \/ ~AllFinite(xs) \/ ~AllFinite(ys) THEN FitRaised
    ELSE IF Centred(xs, xs) = Num(0) THEN Fitted(Mean(ys), Num(0))
    ELSE LeastSquares(xs, ys)

\* np.polyfit(x, y, 1): TypeError on an empty x.  The columns [x, 1] are
\* scaled to unit norm and solved by lstsq.  polyfit does not look for nan
\* or infinity: they reach LAPACK, which either reports failure (polyfit
\* then raises LinAlgError) or returns nan coefficients, depending on the
\* build (raises).  When all x are equal to x0 the minimum-norm solution
\* of the scaled system is b = mean(y)/(2*x0), a = mean(y)/2, and x0 = 0
\* makes the scale 0 and the scaled column nan.
Polyfit(xs, ys, raises) ==
    IF Len(xs) = 0 THEN FitRaised
    ELSE IF ~AllFinite(xs) \/ ~AllFinite(ys) THEN
        (IF raises THEN FitRaised ELSE Fitted(NaN, NaN))
    ELSE IF Centred(xs, xs) = Num(0) THEN
        (IF xs[1] = Num(0)
         THEN (IF raises THEN FitRaised ELSE Fitted(NaN, NaN))
         ELSE Fitted(Div(Mean(ys), Num(2)),
                     Div(Mean(ys), Mul(Num(2), xs[1]))))
    ELSE LeastSquares(xs, ys)

\* A classifier that forgets abs().
CategorySigned(elasticity) ==
    IF Gt(elasticity, Num(1)) THEN "Elastic"
    ELSE IF Lt(elasticity, Num(1)) THEN "Inelastic"
    ELSE "Unit Elastic"

\* Category badge: the three-way if / elif / else on abs(elasticity).
Category(elasticity) ==
    IF Gt(Abs(elasticity), Num(1)) THEN "Elastic"
    ELSE IF Lt(Abs(elasticity), Num(1)) THEN "Inelastic"
    ELSE "Unit Elastic"

(***************************************************************************)
(* One run of a script.  The result records the script's variables at the  *)
(* end of the run and the elements it rendered (shown).  An exception      *)
(* that no handler catches ends the run: what was rendered before it       *)
(* stays, nothing after it is rendered.                                    *)
(***************************************************************************)
None == [k |-> "none", n |-> 0, d |-> 1]

\* The names a run starts with, given the previous run prev.  Every interaction executes the script
\* again from its first line; no statement of either script stores a value
\* for a later run (no st.session_state, no cache decorator), so a run
\* starts with none of the names an earlier run bound: p_star is unbound.
FreshNamespace == [p_star_bound |-> FALSE, p_star |-> None]

\* A namespace that outlives the run (as a module-level cache would).
KeptNamespace(prev) ==
    [p_star_bound |-> prev.p_star_bound, p_star |-> prev.p_star]

ScriptNamespace(prev) == FreshNamespace

Blank(ns) ==
    [status |-> "running", shown |-> {},
     a |-> None, elasticity |-> None, category |-> "",
     base_price |-> None, base_qty |-> None, base_rev |-> None,
     new_price |-> None, new_qty |-> None, new_rev |-> None,
     rev_diff |-> None, unit_cost |-> None, pm |-> "",
     p_star_bound |-> ns.p_star_bound, p_star |-> ns.p_star,
     q_star |-> None, profit_star |-> None, marker |-> None]

\* The change alone, without the "1 +".
NewPriceChangeOnly(base_price, pct_change) ==
    Mul(base_price, Rat(pct_change, 100))

\* new_price = base_price * (1 + pct_change/100.0)
NewPrice(base_price, pct_change) ==
    Mul(base_price, Add(Num(1), Rat(pct_change, 100)))

\* The value and the rendering order of the first half of both scripts:
\* elasticity line, category badge, slider, the four metrics.
WithFit(o, fit) ==
    [o EXCEPT !.a = fit.a, !.elasticity = fit.b,
              !.category = Category(fit.b),
              !.shown = @ \cup {"elasticity", "category"}]

WithScenario(o, base_price, base_qty, new_price, new_qty) ==
    [o EXCEPT !.base_price = base_price, !.base_qty = base_qty,
              !.base_rev = Mul(base_price, base_qty),
              !.new_price = new_price, !.new_qty = new_qty,
              !.new_rev = Mul(new_price, new_qty),
              !.rev_diff = Sub(Mul(new_price, new_qty),
                               Mul(base_price, base_qty)),
              !.shown = @ \cup {"slider", "metrics"}]

(***************************************************************************)
(* toolkit5.py                                                             *)
(***************************************************************************)
\* np.exp(model.predict([[np.log(p)]])): predict validates its input and
\* raises ValueError on nan or infinity.
Predict(fit, p) ==
    IF IsFinite(Log(p))
    THEN [raised |-> FALSE, v |-> Exp(Add(fit.a, Mul(fit.b, Log(p))))]
    ELSE [raised |-> TRUE, v |-> None]

\* default_cost = round(base_price * 0.6, 2) if base_price > 0 else 1.0
DefaultCost(base_price) ==
    IF Gt(base_price, Num(0)) THEN Round2(Mul(base_price, Rat(6, 10)))
    ELSE Num(1)

\* The guard with >= in place of >.
FiniteOptimumIncludingOne(abs_elasticity, unit_cost) ==
    Ge(abs_elasticity, Num(1)) /\ Ge(unit_cost, Num(0))

\* if abs_elasticity > 1 and unit_cost >= 0:
FiniteOptimum(abs_elasticity, unit_cost) ==
    Gt(abs_elasticity, Num(1)) /\ Ge(unit_cost, Num(0))

\* The markup with the sign of 1/|PED| flipped.
LernerPricePlus(unit_cost, abs_elasticity) ==
    Div(unit_cost, Add(Num(1), Div(Num(1), abs_elasticity)))

\* p_star = unit_cost / (1.0 - 1.0/abs_elasticity)
LernerPrice(unit_cost, abs_elasticity) ==
    Div(unit_cost, Sub(Num(1), Div(Num(1), abs_elasticity)))

\* The guard dropped: every computed P* is taken as a price.
AnyPrice(p_star) == TRUE

\* if p_star > 0:
PositivePrice(p_star) == Gt(p_star, Num(0))

\* q_star, profit_star and the three metrics; predict may raise.
PStarMetrics(o, unit_cost, q) ==
    IF q.raised THEN [o EXCEPT !.status = "aborted"]
    ELSE [o EXCEPT !.pm = "ProfitMaxResult",
                   !.q_star = q.v,
                   !.profit_star = Mul(Sub(o.p_star, unit_cost), q.v),
                   !.shown = @ \cup {"pm_metrics"}]

\* The branch with the non-positive P* reported by the |PED| <= 1 message.
WithPStarOneMessage(o, fit, unit_cost) ==
    IF PositivePrice(o.p_star)
    THEN PStarMetrics(o, unit_cost, Predict(fit, o.p_star))
    ELSE [o EXCEPT !.pm = "NotApplicable",
                   !.shown = @ \cup {"pm_not_applicable"}]

\* The branch taken once p_star is bound.
WithPStar(o, fit, unit_cost) ==
    IF PositivePrice(o.p_star)
    THEN PStarMetrics(o, unit_cost, Predict(fit, o.p_star))
    ELSE [o EXCEPT !.pm = "DegenerateSolution",
                   !.shown = @ \cup {"pm_not_positive"}]

\* The profit-maximising price expander (its body runs whether or not the
\* expander is open).  o holds the number input's value in unit_cost.
ProfitMax(o, fit) ==
    IF FiniteOptimum(Abs(fit.b), o.unit_cost)
    THEN WithPStar([o EXCEPT !.p_star_bound = TRUE,
                             !.p_star = LernerPrice(o.unit_cost, Abs(fit.b))],
                   fit, o.unit_cost)
    ELSE [o EXCEPT !.pm = "NotApplicable",
                   !.shown = @ \cup {"pm_not_applicable"}]

\* unit_cost = st.number_input(..., min_value=0.0, value=default_cost)
WithUnitCost(o, cost) ==
    [o EXCEPT !.unit_cost = IF cost = None THEN DefaultCost(o.base_price)
                            ELSE cost,
              !.shown = @ \cup {"unit_cost_input"}]

\* The chart: the fitted curve over np.linspace(min*0.8, max*1.2, 100)
\* (predict raises when a grid point has no finite logarithm, that is when
\* the lowest one is <= 0), then the P* line, drawn
\* if 'p_star' in locals() and p_star > 0.
Chart5(o, df) ==
    IF o.status = "aborted" THEN o
    ELSE IF ~IsFinite(Log(Mul(MinOf(Column(df, "price")), Rat(8, 10))))
    THEN [o EXCEPT !.status = "aborted"]
    ELSE [o EXCEPT !.status = "done",
                   !.marker = IF o.p_star_bound /\ Gt(o.p_star, Num(0))
                              THEN o.p_star ELSE None,
                   !.shown = @ \cup {"chart"}]

\* The expander, reached unless the run has ended.
ProfitMaxStep(o, fit, cost) ==
    IF o.status = "aborted" THEN o ELSE ProfitMax(WithUnitCost(o, cost), fit)

\* Scenario metrics: both predictions, then the four st.metric calls.
Scenario5(o, fit, base_price, new_price, base_qty, new_qty) ==
    IF base_qty.raised \/ new_qty.raised THEN [o EXCEPT !.status = "aborted"]
    ELSE WithScenario(o, base_price, base_qty.v, new_price, new_qty.v)

\* Everything after the fit.
AfterFit5(o, fit, df, base_price, new_price, cost) ==
    IF fit.raised THEN [o EXCEPT !.status = "aborted"]
    ELSE Chart5(
           ProfitMaxStep(
             Scenario5(WithFit(o, fit), fit, base_price, new_price,
                       Predict(fit, base_price), Predict(fit, new_price)),
             fit, cost),
           df)

Script5(ns, df, pct_change, cost) ==
    AfterFit5(Blank(ns),
              LinearRegressionFit(LogAll(Column(df, "price")),
                                  LogAll(Column(df, "qty"))),
              df,
              Mean(Column(df, "price")),
              NewPrice(Mean(Column(df, "price")), pct_change),
              cost)

(***************************************************************************)
(* toolkit7.py                                                             *)
(***************************************************************************)
\* The slope term subtracted.
q_hat_minus(fit, p) == Exp(Sub(fit.a, Mul(fit.b, Log(p))))

\* def q_hat(p): return float(np.exp(a + elasticity * np.log(p)))
q_hat(fit, p) == Exp(Add(fit.a, Mul(fit.b, Log(p))))

\* Everything after the fit; nothing in it raises.
AfterFit7(o, fit, base_p, new_p) ==
    IF fit.raised THEN [o EXCEPT !.status = "aborted"]
    ELSE [WithScenario(WithFit(o, fit), base_p, q_hat(fit, base_p),
                       new_p, q_hat(fit, new_p))
            EXCEPT !.status = "done", !.shown = @ \cup {"chart"}]

Script7(ns, df, pct_change, raises) ==
    AfterFit7(Blank(ns),
              Polyfit(LogAll(Column(df, "price")),
                      LogAll(Column(df, "qty")), raises),
              Mean(Column(df, "price")),
              NewPrice(Mean(Column(df, "price")), pct_change))

(***************************************************************************)
(* Inputs                                                                  *)
(***************************************************************************)
\* Largest number of rows of an uploaded table of hand-picked rows.
MaxObs == 2

\* Rows an uploaded CSV may hold: prices 2 and 8 with quantities that give
\* slopes on both sides of -1 and 1, and rows with a zero or negative value.
Rows ==
    << Row(Num(2), Num(16)), Row(Num(2), Num(4)), Row(Num(8), Num(4)),
       Row(Num(8), Num(3)), Row(Num(0), Num(4)), Row(Num(-2), Num(4)),
       Row(Num(2), Num(0)) >>

\* The rows of Rows at the positions in S, in increasing position.
RECURSIVE Pick(_, _)
Pick(S, i) ==
    IF i > Len(Rows) THEN <<>>
    ELSE IF i \in S THEN <<Rows[i]>> \o Pick(S, i + 1)
    ELSE Pick(S, i + 1)

PickedTables ==
    {Pick(S, 1) : S \in {T \in SUBSET (1..Len(Rows)) : Cardinality(T) <= MaxObs}}

\* Tables whose quantities follow qty = exp(a0 + b0*ln(price)) exactly.
Laws == {<<Num(3), Num(-2)>>, <<Num(3), Rat(-1, 2)>>, <<Num(0), Rat(3, 2)>>,
         <<Num(1), Rat(-5, 4)>>}

PriceLists == {<<Num(2), Num(8)>>, <<Num(2), Num(3), Num(8)>>,
               <<Num(4), Num(4)>>}

Generate(a0, b0, prices) ==
    [i \in 1..Len(prices) |->
        Row(prices[i], Exp(Add(a0, Mul(b0, Log(prices[i])))))]

LawTables == {Generate(l[1], l[2], ps) : l \in Laws, ps \in PriceLists}

Uploads == PickedTables \cup LawTables

\* The slider: integers from -30 to 30, initially 5.
PctValues == {-30, 0, 5, 10}
\* st.number_input(min_value=0.0): the user can enter no negative cost.
CostValues == {Num(0), Num(6)}

\* price = np.linspace(10, 40, 20): the model keeps the two end points.
DemoPrices == <<Num(10), Num(40)>>

\* The demo table: qty = (1200 - 20*price) + noise, np.maximum(qty, 1).
DemoData(nz) ==
    [i \in 1..Len(DemoPrices) |->
        LET qty == Add(Sub(Num(1200), Mul(Num(20), DemoPrices[i])), nz[i])
        IN  Row(DemoPrices[i], IF Lt(qty, Num(1)) THEN Num(1) ELSE qty)]

\* rng = np.random.default_rng(42); rng.normal(0, 30, ...): the same draws
\* in every run.  The model takes them from two vectors within one
\* standard deviation.
NoiseVectors == {<<Num(24), Num(-16)>>, <<Num(-24), Num(16)>>}

(***************************************************************************)
(* The dashboard as a state machine                                        *)
(***************************************************************************)
VARIABLES
    app,          \* "toolkit5" or "toolkit7": the script being served
    lstsqRaises,  \* the build: LAPACK reports a nan matrix as a failure
    noise,        \* the draws of the seeded generator
    up,           \* the file uploader: [has, rows]
    pct_change,   \* the slider
    cost,         \* the unit-cost field: None until the user enters one
                  \* (the field then shows default_cost); an entered
                  \* value is kept across uploads, so every pair of a
                  \* table and a cost >= 0 is reachable
    out           \* the last run: final variables and rendered elements

vars == <<app, lstsqRaises, noise, up, pct_change, cost, out>>

NoUpload == [has |-> FALSE, rows |-> <<>>]

\* if up: df = pd.read_csv(up)  else: the demo table
DataFrame(u, nz) == IF u.has THEN u.rows ELSE DemoData(nz)

\* One execution of the served script on the current widget values.
Run(prev, u, pct, c) ==
    IF app = "toolkit5"
    THEN Script5(ScriptNamespace(prev), DataFrame(u, noise), pct, c)
    ELSE Script7(ScriptNamespace(prev), DataFrame(u, noise), pct,
                 lstsqRaises)

Init ==
    /\ app \in {"toolkit5", "toolkit7"}
    /\ lstsqRaises \in (IF app = "toolkit7" THEN BOOLEAN ELSE {FALSE})
    /\ noise \in NoiseVectors
    /\ up = NoUpload
    /\ pct_change = 5
    /\ cost = None
    /\ out = Run(Blank(FreshNamespace), up, pct_change, cost)

\* The user uploads a CSV file.
Upload(rows) ==
    /\ up' = [has |-> TRUE, rows |-> rows]
    /\ out' = Run(out, up', pct_change, cost)
    /\ UNCHANGED <<app, lstsqRaises, noise, pct_change, cost>>

\* The user removes the uploaded file.
ClearUpload ==
    /\ up.has
    /\ up' = NoUpload
    /\ out' = Run(out, up', pct_change, cost)
    /\ UNCHANGED <<app, lstsqRaises, noise, pct_change, cost>>

\* The user moves the slider (it is on the page once the fit succeeded).
SliderMove(v) ==
    /\ "slider" \in out.shown
    /\ pct_change' = v
    /\ out' = Run(out, up, v, cost)
    /\ UNCHANGED <<app, lstsqRaises, noise, up, cost>>

\* The user enters a unit cost (toolkit5 only).
CostChange(c) ==
    /\ "unit_cost_input" \in out.shown
    /\ cost' = c
    /\ out' = Run(out, up, pct_change, c)
    /\ UNCHANGED <<app, lstsqRaises, noise, up, pct_change>>

\* Any other interaction (opening the expander, switching tabs, a manual
\* rerun) executes the script again on the same widget values.
Rerun ==
    /\ out' = Run(out, up, pct_change, cost)
    /\ UNCHANGED <<app, lstsqRaises, noise, up, pct_change, cost>>

Next ==
    \/ \E rows \in Uploads : Upload(rows)
    \/ ClearUpload
    \/ \E v \in PctValues : SliderMove(v)
    \/ \E c \in CostValues : CostChange(c)
    \/ Rerun

Spec == Init /\ [][Next]_vars

(***************************************************************************)
(* Properties                                                              *)
(***************************************************************************)
\* |v| > 1, |v| < 1 and |v| = 1 for a rational v, on numerator and
\* denominator.
AbsAboveOne(v) == AbsInt(v.n) > v.d
AbsBelowOne(v) == AbsInt(v.n) < v.d
AbsIsOne(v)    == AbsInt(v.n) = v.d

PmOutcomes == {"ProfitMaxResult", "NotApplicable", "DegenerateSolution"}
PmElements == {"pm_metrics", "pm_not_applicable", "pm_not_positive"}

\* C1: whenever a real elasticity is displayed, in either dashboard, the
\* badge shows exactly one of the three labels: Elastic iff |e| > 1,
\* Inelastic iff |e| < 1, Unit Elastic iff |e| = 1, whatever the sign of e.
C1_Classifier ==
    ("elasticity" \in out.shown /\ IsNum(out.elasticity)) =>
        /\ "category" \in out.shown
        /\ out.category \in {"Elastic", "Inelastic", "Unit Elastic"}
        /\ (out.category = "Elastic") <=> AbsAboveOne(out.elasticity)
        /\ (out.category = "Inelastic") <=> AbsBelowOne(out.elasticity)
        /\ (out.category = "Unit Elastic") <=> AbsIsOne(out.elasticity)

\* A negative slope below -1 is labelled Elastic.
C1_Witness ==
    /\ out.category = "Elastic"
    /\ IsNum(out.elasticity)
    /\ out.elasticity.n < 0

\* C2: in toolkit5, once the unit cost (>= 0) is read, the outcome is
\* NotApplicable exactly when |b| <= 1; then p_star is not computed, no
\* P*, quantity or profit is shown, the chart has no P* line, and the only
\* profit-max element on the page is the "no finite P*" message.
C2_NotApplicable ==
    "unit_cost_input" \in out.shown =>
        /\ Ge(out.unit_cost, Num(0))
        /\ (out.pm = "NotApplicable") <=> ~AbsAboveOne(out.elasticity)
        /\ out.pm = "NotApplicable" =>
              /\ ~out.p_star_bound
              /\ out.p_star = None /\ out.q_star = None
              /\ out.profit_star = None /\ out.marker = None
              /\ out.shown \cap PmElements = {"pm_not_applicable"}

\* The boundary |b| = 1 with a positive unit cost.
C2_Witness ==
    /\ out.pm = "NotApplicable"
    /\ AbsIsOne(out.elasticity)
    /\ Gt(out.unit_cost, Num(0))

\* C3: in toolkit5, a computed P* that is not positive (unit_cost = 0 with
\* |b| > 1 gives P* = 0) ends in DegenerateSolution: no quantity or profit
\* is computed, the chart has no P* line, the only profit-max element is
\* the "P* is not positive" message; and the three outcomes exclude one
\* another, each with its own element.
C3_Degenerate ==
    "unit_cost_input" \in out.shown =>
        /\ (out.p_star_bound /\ Le(out.p_star, Num(0))) =>
              /\ out.pm = "DegenerateSolution"
              /\ out.q_star = None /\ out.profit_star = None
              /\ out.marker = None
              /\ out.shown \cap PmElements = {"pm_not_positive"}
        /\ (out.unit_cost = Num(0) /\ AbsAboveOne(out.elasticity)) =>
              (out.pm = "DegenerateSolution" /\ out.p_star = Num(0))
        /\ out.pm = "DegenerateSolution" =>
              (out.p_star_bound /\ Le(out.p_star, Num(0)))
        /\ out.pm = "ProfitMaxResult" =>
              out.shown \cap PmElements = {"pm_metrics"}
        /\ out.pm = "NotApplicable" =>
              out.shown \cap PmElements = {"pm_not_applicable"}

\* Zero unit cost on an elastic fit.
C3_Witness ==
    /\ out.pm = "DegenerateSolution"
    /\ out.unit_cost = Num(0)
    /\ AbsAboveOne(out.elasticity)
    /\ out.status = "done"


\* The table the current run reads.
df == DataFrame(up, noise)

Prices == Column(df, "price")

\* C4 (as claimed): a table with fewer than 2 rows, or with a price or a
\* quantity <= 0, makes the fit fail: the run ends there with no
\* elasticity displayed.
C4_FitterRejects ==
    (\/ Len(df) < 2
     \/ \E i \in 1..Len(df) :
            Le(df[i].price, Num(0)) \/ Le(df[i].qty, Num(0)))
    => (out.status = "aborted" /\ "elasticity" \notin out.shown)

\* C5 (as claimed): no quantity or revenue is reported for a price <= 0:
\* the scenario metrics appear only for a positive base price and a
\* positive new price, the P* metrics only for a positive P*.
C5_ProjectorRejects ==
    /\ "metrics" \in out.shown =>
          (Gt(out.base_price, Num(0)) /\ Gt(out.new_price, Num(0)))
    /\ "pm_metrics" \in out.shown => Gt(out.p_star, Num(0))

\* C6: whenever the fit succeeds, the run renders the elasticity, the
\* badge, the scenario metrics and the chart and ends normally, whichever
\* of the three profit-max outcomes toolkit5 reaches on the way.
C6_RunCompletes ==
    "elasticity" \in out.shown =>
        /\ out.status = "done"
        /\ {"category", "slider", "metrics", "chart"} \subseteq out.shown
        /\ IsNum(out.base_price) /\ IsNum(out.new_price)
        /\ out.new_qty # None /\ out.rev_diff # None
        /\ app = "toolkit5" =>
              (out.pm \in PmOutcomes /\
               Cardinality(out.shown \cap PmElements) = 1)

\* A completed run whose profit-max ended in DegenerateSolution.
C6_Witness ==
    /\ out.status = "done"
    /\ out.pm = "DegenerateSolution"
    /\ {"elasticity", "metrics", "chart"} \subseteq out.shown

\* C7: with a real fitted model and a positive base price, a slider value
\* of 0 gives new_price = base_price, new_qty = base_qty and a revenue
\* difference of exactly 0.
C7_ZeroChange ==
    (/\ pct_change = 0
     /\ "elasticity" \in out.shown
     /\ IsNum(out.a) /\ IsNum(out.elasticity)
     /\ Gt(Mean(Prices), Num(0)))
    => /\ "metrics" \in out.shown
       /\ out.base_price = Mean(Prices)
       /\ out.new_price = out.base_price
       /\ out.new_qty = out.base_qty
       /\ out.rev_diff = Num(0)

\* The slider at 0 on a fit with a non-zero slope.
C7_Witness ==
    /\ pct_change = 0
    /\ "metrics" \in out.shown
    /\ IsNum(out.elasticity) /\ out.elasticity.n # 0
    /\ IsNum(out.base_qty) /\ out.base_qty.n > 0

\* The projection of the served script at price p under the fitted model.
Projected(p) ==
    LET fit == Fitted(out.a, out.elasticity)
    IN  IF app = "toolkit5" THEN Predict(fit, p).v ELSE q_hat(fit, p)

ProbePrices == {Rat(1, 2), Num(1), Num(3), Num(10), Rat(21, 2)}

\* C8: with a real slope b < 0, the projected quantity at the higher of
\* any two positive prices is strictly smaller; so a slider value > 0
\* gives new_qty < base_qty and a slider value < 0 gives new_qty > base_qty.
C8_Monotone ==
    (/\ "metrics" \in out.shown
     /\ IsNum(out.a) /\ IsNum(out.elasticity)
     /\ out.elasticity.n < 0)
    => /\ \A p1, p2 \in ProbePrices :
              Lt(p1, p2) => Lt(Projected(p2), Projected(p1))
       /\ Gt(out.base_price, Num(0)) =>
              /\ pct_change > 0 => Lt(out.new_qty, out.base_qty)
              /\ pct_change < 0 => Gt(out.new_qty, out.base_qty)

\* A price rise of 10% on an uploaded table with a negative slope.
C8_Witness ==
    /\ up.has /\ pct_change = 10
    /\ "metrics" \in out.shown
    /\ IsNum(out.elasticity) /\ out.elasticity.n < 0
    /\ pct_change > 0
    /\ Lt(out.new_qty, out.base_qty)

DistinctPrices(ps) == Cardinality({ps[i] : i \in 1..Len(ps)})

\* C10: on an uploaded table with at least two different positive prices
\* whose quantities are exactly exp(a0 + b0*ln(price)), the fit returns
\* intercept a0 and slope b0.
C10_RoundTrip ==
    \A l \in Laws, ps \in PriceLists :
        (/\ up.has
         /\ up.rows = Generate(l[1], l[2], ps)
         /\ Len(ps) >= 2 /\ DistinctPrices(ps) >= 2)
        => /\ "elasticity" \in out.shown
           /\ out.a = l[1]
           /\ out.elasticity = l[2]

\* Three prices, one of them not a power of two, under slope -2.
C10_Witness ==
    /\ up.has
    /\ up.rows = Generate(Num(3), Num(-2), <<Num(2), Num(3), Num(8)>>)
    /\ out.a = Num(3)
    /\ out.elasticity = Num(-2)

\* C11: whenever toolkit5 reports a profit-maximising price (the P*
\* metrics are shown), |elasticity| > 1 and unit_cost > 0, the price is
\* unit_cost / (1 - 1/|elasticity|) and strictly above unit_cost, the
\* quantity at P* is positive, and the profit (P* - unit_cost) * quantity
\* is strictly positive.
C11_PriceAboveCost ==
    (out.pm = "ProfitMaxResult" \/ "pm_metrics" \in out.shown) =>
        /\ out.pm = "ProfitMaxResult" /\ "pm_metrics" \in out.shown
        /\ AbsAboveOne(out.elasticity)
        /\ Gt(out.unit_cost, Num(0))
        /\ Mul(out.p_star, Rat(AbsInt(out.elasticity.n) - out.elasticity.d,
                               AbsInt(out.elasticity.n)))
             = out.unit_cost
        /\ Gt(out.p_star, out.unit_cost)
        /\ Gt(out.q_star, Num(0))
        /\ out.profit_star = Mul(Sub(out.p_star, out.unit_cost), out.q_star)
        /\ Gt(out.profit_star, Num(0))
        /\ out.marker = out.p_star

\* A reported P* for a unit cost the user entered.
C11_Witness ==
    /\ out.pm = "ProfitMaxResult"
    /\ cost # None /\ out.unit_cost = cost
    /\ Gt(out.p_star, out.unit_cost)
    /\ out.status = "done"
=============================================================================
